---- MODULE Spec2Model ----
(***************************************************************************)
(* Model of scripts/recon_cutsky.py: run_reconstruction (one process per   *)
(* MPI rank, each stepping through the function body), get_bias, and the   *)
(* __main__ block that parses the command line and invokes                 *)
(* run_reconstruction once per region.                                     *)
(***************************************************************************)
EXTENDS Integers, Sequences, FiniteSets, TLC

\* ---------------------------------------------------------------- bounds
MaxRandoms == 2
NRanks == 2
NRows == 2
MaxRegions == 2
MaxZlim == 2
MaxLen == 4

\* ------------------------------------------------------- python values
\* A python value is a record [k, v]: None, a str (v: its characters), a
\* list (v: its items) or an array (v: its rows).
None == [k |-> "None", v |-> <<>>]
Str(chars) == [k |-> "str", v |-> chars]
List(items) == [k |-> "list", v |-> items]
Array(rows) == [k |-> "array", v |-> rows]

\* np.ndim: 0 for a str, 1 for a list of paths.
ndim(x) == IF x.k = "list" THEN 1 ELSE 0

\* Python iteration: a list yields its items, a str yields its characters,
\* each a str of length one.
iter(x) == IF x.k = "str" THEN [j \in 1..Len(x.v) |-> <<x.v[j]>>] ELSE x.v

Min(a, b) == IF a <= b THEN a ELSE b

\* zip stops at the shorter of its two arguments.
zip(a, b) == [j \in 1..Min(Len(a), Len(b)) |-> <<a[j], b[j]>>]

\* ------------------------------------------------------------- paths
Digit(n) == <<"1", "2", "3", "4", "5">>[n]
DataPath == <<"d", "0">>
DataRecPath == <<"o", "0">>
RandomsPath(n) == <<"r", Digit(n)>>
RandomsRecPath(n) == <<"o", Digit(n)>>

InputPaths == {DataPath} \cup {RandomsPath(n) : n \in 1..MaxRandoms}

FileNo(p) == IF p = DataPath THEN 0 ELSE CHOOSE n \in 1..MaxRandoms : p = RandomsPath(n)

\* The catalogs on disk before the run: NRows rows each, with the sky
\* columns RA, DEC, Z and two further columns.
InputCatalog(p) ==
    [j \in 1..NRows |->
        [RA |-> 10 * j, DEC |-> FileNo(p), Z |-> j, WEIGHT |-> j + FileNo(p), ID |-> <<FileNo(p), j>>]]

\* --------------------------------------------------- external libraries
\* cosmoprimo: DESI().comoving_radial_distance and its inverse.
distance(z) == [comoving |-> z]
distance_to_redshift(d) == d.comoving

\* pyrecon.utils: sky <-> cartesian.
sky_to_cartesian(dist, ra, dec) == [frame |-> "cartesian", d |-> dist, ra |-> ra, dec |-> dec]
cartesian_to_sky(p) == <<p.d, p.ra, p.dec>>

\* pyrecon: the displacement read_shifted_positions applies for a field.
Displacement(field) ==
    CASE field = "disp" -> 100
      [] field = "disp+rsd" -> 200
      [] OTHER -> 300

ShiftOne(p, field) ==
    [p EXCEPT !.d = [comoving |-> p.d.comoving + Displacement(field)],
              !.ra = p.ra + Displacement(field),
              !.dec = p.dec + Displacement(field)]

\* optimalrecon.io_tools.read_positions_weights_cutsky: the rows inside the
\* redshift limits.
InMask(row, zl) == zl[1] < row.Z /\ row.Z < zl[2]
MaskOf(rows, zl) == [j \in 1..Len(rows) |-> InMask(rows[j], zl)]
ApplyMask(rows, mask) ==
    LET keep == {j \in 1..Len(rows) : mask[j]}
        RECURSIVE Take(_)
        Take(j) == IF j > Len(rows) THEN <<>>
                   ELSE (IF j \in keep THEN <<rows[j]>> ELSE <<>>) \o Take(j + 1)
    IN Take(1)

\* ------------------------------------------------------------- state
VARIABLES
    entry,            \* "cli": run_reconstruction called by __main__; "call": called directly
    mpicomm,          \* None, or the communicator [k |-> "comm", size |-> n]
    Reconstruction,   \* the reconstruction class
    convention,
    data_fn, randoms_fn, data_rec_fn, randoms_rec_fn,
    zlim,             \* kwargs['zlim'], passed on to read_positions_weights_cutsky
    pc,               \* per rank: the statement of run_reconstruction it is at
    idx,              \* per rank: index of the running for loop
    loc,              \* per rank: the local variables
    recon,            \* per rank: the reconstruction object (calls received, data assigned)
    fs,               \* the files on disk: path -> catalog
    reads,            \* Table.read / read_positions_weights_cutsky events
    writes            \* catalog.write events

argVars == <<entry, mpicomm, Reconstruction, convention, data_fn, randoms_fn,
             data_rec_fn, randoms_rec_fn, zlim>>
runVars == <<pc, idx, loc, recon, fs, reads, writes>>

VARIABLES
    argv,     \* the command line: per option, whether it is given and its values
    args,     \* the namespace parse_args returns
    mpc,      \* the statement of the __main__ block the script is at
    mloc,     \* the locals of the __main__ block: bias, zbox, zlims, f, region index
    calls,    \* the invocations of run_reconstruction, in order
    tracer_in, bias_out, bias_pc   \* a call of get_bias: argument, result, position

mainVars == <<argv, args, mpc, mloc, calls>>
biasVars == <<tracer_in, bias_out, bias_pc>>
vars == <<entry, mpicomm, Reconstruction, convention, data_fn, randoms_fn,
          data_rec_fn, randoms_rec_fn, zlim, pc, idx, loc, recon, fs, reads, writes,
          argv, args, mpc, mloc, calls, tracer_in, bias_out, bias_pc>>

AllRanks == 0..(NRanks - 1)
Ranks == IF mpicomm.k = "None" THEN {0} ELSE 0..(mpicomm.size - 1)

\* line 22 (root_everywhere: the variant in which every rank is root)
root_everywhere(r) == TRUE
root(r) == mpicomm.k = "None" \/ r = 0

\* line 24: a scalar randoms_fn becomes a one-item list (randoms_fn_raw: the
\* variant without line 24)
randoms_fn_raw == iter(randoms_fn)
randoms_fn_list == IF ndim(randoms_fn) = 0 THEN <<randoms_fn.v>> ELSE iter(randoms_fn)

\* line 76: the (fn, rec_fn) pairs of the second loop
randoms_pairs == zip(randoms_fn_list, iter(randoms_rec_fn))

\* line 59
data_field == IF convention = "rsd" THEN "rsd" ELSE "disp+rsd"

\* line 75 (randoms_field_swapped: the variant with the two fields exchanged)
randoms_field_swapped == IF convention = "recsym" THEN "disp" ELSE "disp+rsd"
randoms_field == IF convention = "recsym" THEN "disp+rsd" ELSE "disp"

\* line 74
shift_randoms == convention # "rsd"

\* lines 32, 51, 79: read_positions_weights_cutsky(fn, zlim=...)
read_positions_weights_cutsky(fn) ==
    LET rows == fs[fn]
        mask == MaskOf(rows, zlim)
        sel == ApplyMask(rows, mask)
    IN [ra |-> [j \in 1..Len(sel) |-> sel[j].RA],
        dec |-> [j \in 1..Len(sel) |-> sel[j].DEC],
        z |-> [j \in 1..Len(sel) |-> sel[j].Z],
        weights |-> Array([j \in 1..Len(sel) |-> sel[j].WEIGHT]),
        mask |-> mask]

\* lines 34-35, 52-53, 81-82: dist = distance(z); utils.sky_to_cartesian(dist, ra, dec)
positions_of(rd) ==
    Array([j \in 1..Len(rd.z) |-> sky_to_cartesian(distance(rd.z[j]), rd.ra[j], rd.dec[j])])

\* lines 33, 80: catalog[mask]
select(rows, mask) == ApplyMask(rows, mask)

\* lines 68-69, 85-86: the catalog with RA, DEC, Z replaced by the shifted sky
\* coordinates (set_columns_all: the variant that also resets WEIGHT)
set_columns_all(rows, rec) ==
    [j \in 1..Len(rows) |->
        LET s == cartesian_to_sky(rec.v[j])
        IN [rows[j] EXCEPT !.RA = s[2], !.DEC = s[3], !.Z = distance_to_redshift(s[1]),
                           !.WEIGHT = 1]]
set_columns(rows, rec) ==
    [j \in 1..Len(rows) |->
        LET s == cartesian_to_sky(rec.v[j])
        IN [rows[j] EXCEPT !.RA = s[2], !.DEC = s[3], !.Z = distance_to_redshift(s[1])]]

\* A call received by the reconstruction object.
Call(op, site, pos, wts, field, fn) ==
    [op |-> op, site |-> site, pos |-> pos, wts |-> wts, field |-> field, fn |-> fn]

\* pyrecon: recon.read_shifted_positions(positions, field); the str 'data' stands
\* for the positions given to assign_data.
read_shifted_positions(rc, positions, field) ==
    LET src == IF positions.k = "str" THEN rc.data ELSE positions
    IN IF src.k = "array"
       THEN Array([j \in 1..Len(src.v) |-> ShiftOne(src.v[j], field)])
       ELSE None

NoLocals ==
    [data |-> <<>>, data_positions |-> None, data_weights |-> None,
     randoms_positions |-> None, randoms_weights |-> None, data_positions_rec |-> None]

Received(r, c) == [recon EXCEPT ![r].log = Append(@, c)]

\* ------------------------------------------------- run_reconstruction
\* lines 22-35: the root rank loads the data catalog
LoadData(r) ==
    /\ pc[r] = "load"
    /\ IF root(r)
       THEN IF data_fn \in DOMAIN fs
            THEN LET rd == read_positions_weights_cutsky(data_fn)
                 IN /\ loc' = [loc EXCEPT ![r].data = select(fs[data_fn], rd.mask),
                                          ![r].data_positions = positions_of(rd),
                                          ![r].data_weights = rd.weights]
                    /\ reads' = Append(reads, [rank |-> r, path |-> data_fn])
                    /\ pc' = [pc EXCEPT ![r] = "construct"]
            ELSE /\ pc' = [pc EXCEPT ![r] = "raised"]
                 /\ UNCHANGED <<loc, reads>>
       ELSE /\ pc' = [pc EXCEPT ![r] = "construct"]
            /\ UNCHANGED <<loc, reads>>
    /\ UNCHANGED <<idx, recon, fs, writes>>
    /\ UNCHANGED <<argVars, mainVars, biasVars>>

\* lines 37-45: recon = Reconstruction(..., positions=data_positions, ...)
Construct(r) ==
    /\ pc[r] = "construct"
    /\ recon' = [recon EXCEPT ![r] =
                    [cls |-> Reconstruction, data |-> None,
                     log |-> <<Call("__init__", 41, loc[r].data_positions, None, "", <<>>)>>]]
    /\ pc' = [pc EXCEPT ![r] = "assign_data"]
    /\ UNCHANGED <<idx, loc, fs, reads, writes>>
    /\ UNCHANGED <<argVars, mainVars, biasVars>>

\* line 47: recon.assign_data(data_positions, data_weights)
AssignData(r) ==
    /\ pc[r] = "assign_data"
    /\ recon' = [recon EXCEPT
                    ![r].data = loc[r].data_positions,
                    ![r].log = Append(@, Call("assign_data", 47, loc[r].data_positions,
                                              loc[r].data_weights, "", <<>>))]
    /\ pc' = [pc EXCEPT ![r] =
                IF Len(randoms_fn_list) >= 1 THEN "assign_randoms" ELSE "set_density_contrast"]
    /\ idx' = [idx EXCEPT ![r] = 1]
    /\ UNCHANGED <<loc, fs, reads, writes>>
    /\ UNCHANGED <<argVars, mainVars, biasVars>>

\* lines 48-54: one pass of the first loop over randoms_fn
AssignRandoms(r) ==
    /\ pc[r] = "assign_randoms"
    /\ LET fn == randoms_fn_list[idx[r]]
           next == IF idx[r] < Len(randoms_fn_list)
                   THEN "assign_randoms" ELSE "set_density_contrast"
       IN IF root(r) /\ fn \notin DOMAIN fs
          THEN /\ pc' = [pc EXCEPT ![r] = "raised"]
               /\ UNCHANGED <<idx, loc, recon, reads>>
          ELSE LET rd == read_positions_weights_cutsky(fn)
                   pos == IF root(r) THEN positions_of(rd) ELSE loc[r].randoms_positions
                   wts == IF root(r) THEN rd.weights ELSE loc[r].randoms_weights
               IN /\ loc' = [loc EXCEPT ![r].randoms_positions = pos,
                                        ![r].randoms_weights = wts]
                  /\ reads' = IF root(r) THEN Append(reads, [rank |-> r, path |-> fn])
                              ELSE reads
                  /\ recon' = Received(r, Call("assign_randoms", 54, pos, wts, "", fn))
                  /\ idx' = [idx EXCEPT ![r] = @ + 1]
                  /\ pc' = [pc EXCEPT ![r] = next]
    /\ UNCHANGED <<fs, writes>>
    /\ UNCHANGED <<argVars, mainVars, biasVars>>

\* line 56: recon.set_density_contrast(smoothing_radius=smoothing_radius)
SetDensityContrast(r) ==
    /\ pc[r] = "set_density_contrast"
    /\ recon' = Received(r, Call("set_density_contrast", 56, None, None, "", <<>>))
    /\ pc' = [pc EXCEPT ![r] = "run"]
    /\ UNCHANGED <<idx, loc, fs, reads, writes>>
    /\ UNCHANGED <<argVars, mainVars, biasVars>>

\* line 57: recon.run()
Run(r) ==
    /\ pc[r] = "run"
    /\ recon' = Received(r, Call("run", 57, None, None, "", <<>>))
    /\ pc' = [pc EXCEPT ![r] = "shift_data"]
    /\ UNCHANGED <<idx, loc, fs, reads, writes>>
    /\ UNCHANGED <<argVars, mainVars, biasVars>>

\* lines 59-63: the shifted data positions
ShiftData(r) ==
    /\ pc[r] = "shift_data"
    /\ LET particle == recon[r].cls = "IterativeFFTParticleReconstruction"
           arg == IF particle THEN Str(<<"d", "a", "t", "a">>) ELSE loc[r].data_positions
           site == IF particle THEN 61 ELSE 63
       IN /\ recon' = Received(r, Call("read_shifted_positions", site, arg, None,
                                       data_field, <<>>))
          /\ loc' = [loc EXCEPT ![r].data_positions_rec =
                        read_shifted_positions(recon[r], arg, data_field)]
    /\ pc' = [pc EXCEPT ![r] = "write_data"]
    /\ UNCHANGED <<idx, fs, reads, writes>>
    /\ UNCHANGED <<argVars, mainVars, biasVars>>

\* lines 65-74: the root rank writes the shifted data catalog
WriteData(r) ==
    /\ pc[r] = "write_data"
    /\ LET next == IF shift_randoms /\ Len(randoms_pairs) >= 1 THEN "shift_randoms" ELSE "done"
           rec == loc[r].data_positions_rec
       IN IF root(r)
          THEN IF rec.k = "array" /\ Len(rec.v) = Len(loc[r].data)
               THEN LET catalog == set_columns(loc[r].data, rec)
                    IN /\ fs' = (data_rec_fn :> catalog) @@ fs
                       /\ writes' = Append(writes, [rank |-> r, path |-> data_rec_fn,
                                                    catalog |-> catalog, input |-> data_fn,
                                                    given |-> Len(rec.v)])
                       /\ pc' = [pc EXCEPT ![r] = next]
               ELSE /\ pc' = [pc EXCEPT ![r] = "raised"]
                    /\ UNCHANGED <<fs, writes>>
          ELSE /\ pc' = [pc EXCEPT ![r] = next]
               /\ UNCHANGED <<fs, writes>>
    /\ idx' = [idx EXCEPT ![r] = 1]
    /\ UNCHANGED <<loc, recon, reads>>
    /\ UNCHANGED <<argVars, mainVars, biasVars>>

\* lines 76-89: one pass of the second loop, over zip(randoms_fn, randoms_rec_fn)
ShiftRandoms(r) ==
    /\ pc[r] = "shift_randoms"
    /\ LET fn == randoms_pairs[idx[r]][1]
           rec_fn == randoms_pairs[idx[r]][2]
           next == IF idx[r] < Len(randoms_pairs) THEN "shift_randoms" ELSE "done"
       IN IF root(r) /\ fn \notin DOMAIN fs
          THEN /\ pc' = [pc EXCEPT ![r] = "raised"]
               /\ UNCHANGED <<idx, loc, recon, fs, reads, writes>>
          ELSE LET rd == read_positions_weights_cutsky(fn)
                   pos == IF root(r) THEN positions_of(rd) ELSE loc[r].randoms_positions
                   wts == IF root(r) THEN rd.weights ELSE loc[r].randoms_weights
                   rec == read_shifted_positions(recon[r], pos, randoms_field)
                   rows == IF root(r) THEN select(fs[fn], rd.mask) ELSE <<>>
               IN /\ loc' = [loc EXCEPT ![r].randoms_positions = pos,
                                        ![r].randoms_weights = wts]
                  /\ reads' = IF root(r) THEN Append(reads, [rank |-> r, path |-> fn])
                              ELSE reads
                  /\ recon' = Received(r, Call("read_shifted_positions", 83, pos, None,
                                               randoms_field, fn))
                  /\ IF root(r)
                     THEN IF rec.k = "array" /\ Len(rec.v) = Len(rows)
                          THEN LET catalog == set_columns(rows, rec)
                               IN /\ fs' = (rec_fn :> catalog) @@ fs
                                  /\ writes' = Append(writes,
                                        [rank |-> r, path |-> rec_fn, catalog |-> catalog,
                                         input |-> fn, given |-> Len(pos.v)])
                                  /\ pc' = [pc EXCEPT ![r] = next]
                          ELSE /\ pc' = [pc EXCEPT ![r] = "raised"]
                               /\ UNCHANGED <<fs, writes>>
                     ELSE /\ pc' = [pc EXCEPT ![r] = next]
                          /\ UNCHANGED <<fs, writes>>
                  /\ idx' = [idx EXCEPT ![r] = @ + 1]
    /\ UNCHANGED <<argVars, mainVars, biasVars>>

\* ------------------------------------------------------------ get_bias
\* str.startswith
startswith(s, prefix) == Len(s) >= Len(prefix) /\ SubSeq(s, 1, Len(prefix)) = prefix

\* lines 92-102; the biases in hundredths (1.2 is 120) (get_bias_shifted: the
\* variant with the QSO and LRG values exchanged)
get_bias_shifted(tracer) ==
    IF startswith(tracer, <<"E", "L", "G">>) THEN 120
    ELSE IF startswith(tracer, <<"Q", "S", "O">>) THEN 199
    ELSE IF startswith(tracer, <<"L", "R", "G">>) THEN 207
    ELSE IF startswith(tracer, <<"B", "G", "S">>) THEN 150
    ELSE 120
get_bias(tracer) ==
    IF startswith(tracer, <<"E", "L", "G">>) THEN 120
    ELSE IF startswith(tracer, <<"Q", "S", "O">>) THEN 207
    ELSE IF startswith(tracer, <<"L", "R", "G">>) THEN 199
    ELSE IF startswith(tracer, <<"B", "G", "S">>) THEN 150
    ELSE 120

\* ------------------------------------------------------------ __main__
\* An option of the command line.
NotGiven == [given |-> FALSE, v |-> <<>>]
Given(x) == [given |-> TRUE, v |-> <<x>>]

\* A python float, in hundredths.
Float(n) == [k |-> "float", v |-> <<n>>]

\* lines 117-118: the choices argparse accepts
AlgorithmChoices == {"MG", "IFT", "IFTP"}
ConventionChoices == {"reciso", "recsym"}

\* lines 137-141
ReconstructionClass(algorithm) ==
    CASE algorithm = "MG" -> "MultiGridReconstruction"
      [] algorithm = "IFT" -> "IterativeFFTReconstruction"
      [] algorithm = "IFTP" -> "IterativeFFTParticleReconstruction"

\* float(str): the decimal literals of the model parse, anything else raises ValueError
IsNumeric(s) == s \in {"0.8", "1.1"}
float(s) ==
    CASE s = "0.8" -> Float(80)
      [] s = "1.1" -> Float(110)

\* optimalrecon.io_tools / recon_tools, not part of the script: each call is kept
\* as the arguments the script passes to it.
NotPassed == <<>>
Passed(x) == <<x>>
catalog_fn(tracer, mock_type, cat_dir, rec_type, name, region, nrandoms) ==
    [tracer |-> tracer, mock_type |-> mock_type, cat_dir |-> cat_dir, rec_type |-> rec_type,
     name |-> name, region |-> region, nrandoms |-> nrandoms]
get_z_cubicbox(tracer) == [k |-> "get_z_cubicbox", v |-> <<tracer>>]
get_z_cutsky(tracer) ==
    [j \in 1..3 |-> [k |-> "get_z_cutsky", v |-> <<tracer, j>>]]
get_f_reconstruction(zbox, zl, mock_type) ==
    [k |-> "get_f_reconstruction", v |-> <<zbox, zl, mock_type>>]

\* lines 108-128: parse_args fills in the defaults of the options not given
region_default == <<"NGC">>

parse_args(a) ==
    [tracer |-> IF a.tracer.given THEN a.tracer.v[1] ELSE <<"E", "L", "G">>,
     indir |-> IF a.indir.given THEN a.indir.v
               ELSE "/global/cfs/cdirs/desi/cosmosim/FirstGenMocks/AbacusSummit/",
     region |-> IF a.region.given THEN a.region.v[1] ELSE region_default,
     zlim |-> IF a.zlim.given THEN List(a.zlim.v[1]) ELSE None,
     outdir |-> IF a.outdir.given THEN a.outdir.v[1] ELSE "./",
     algorithm |-> IF a.algorithm.given THEN a.algorithm.v[1] ELSE "IFT",
     convention |-> IF a.convention.given THEN a.convention.v[1] ELSE "reciso",
     f |-> IF a.f.given THEN Float(a.f.v[1]) ELSE None,
     bias |-> IF a.bias.given THEN Float(a.bias.v[1]) ELSE None,
     nran |-> 5]

ParseArgs ==
    /\ mpc = "parse"
    /\ args' = parse_args(argv)
    /\ mpc' = "bias"
    /\ UNCHANGED <<argv, mloc, calls>>
    /\ UNCHANGED <<argVars, runVars, biasVars>>

\* lines 148-151 (bias_if_truthy: the variant testing 'if args.bias')
bias_if_truthy(a) == IF a.bias.k # "None" /\ a.bias # Float(0) THEN a.bias ELSE Float(get_bias(a.tracer))
bias_of(a) == IF a.bias.k # "None" THEN a.bias ELSE Float(get_bias(a.tracer))

ResolveBias ==
    /\ mpc = "bias"
    /\ mloc' = [mloc EXCEPT !.bias = bias_of(args)]
    /\ mpc' = "zlims"
    /\ UNCHANGED <<argv, args, calls>>
    /\ UNCHANGED <<argVars, runVars, biasVars>>

\* line 160: zlims = [(zlims[0], zlims[-1])]
zlims_range(zs) == <<(<<zs[1], zs[Len(zs)]>>)>>

\* lines 153-160: the redshift limits; float() raises ValueError on a value that is
\* no number, and zlims[0] raises IndexError on an empty list
ResolveZlims ==
    /\ mpc = "zlims"
    /\ LET given == args.zlim.k # "None"
           bad == given /\ \E j \in 1..Len(args.zlim.v) : ~IsNumeric(args.zlim.v[j])
           zs == IF given THEN [j \in 1..Len(args.zlim.v) |-> float(args.zlim.v[j])]
                 ELSE get_z_cutsky(args.tracer)
       IN IF bad \/ Len(zs) = 0
          THEN /\ mpc' = "raised"
               /\ mloc' = [mloc EXCEPT !.zbox = get_z_cubicbox(args.tracer)]
          ELSE /\ mloc' = [mloc EXCEPT !.zbox = get_z_cubicbox(args.tracer),
                                       !.zlims = zlims_range(zs), !.zi = 1]
               /\ mpc' = "f"
    /\ UNCHANGED <<argv, args, calls>>
    /\ UNCHANGED <<argVars, runVars, biasVars>>

\* lines 164-168: the top of one pass of the loop over zlims
f_of(a, zbox, zl) ==
    IF a.f.k # "None" THEN a.f ELSE get_f_reconstruction(zbox, zl, "cutsky")

ResolveF ==
    /\ mpc = "f"
    /\ IF mloc.zi <= Len(mloc.zlims)
       THEN /\ mloc' = [mloc EXCEPT !.f = f_of(args, mloc.zbox, mloc.zlims[mloc.zi]), !.ri = 1]
            /\ mpc' = "region"
       ELSE /\ mpc' = "done"
            /\ UNCHANGED mloc
    /\ UNCHANGED <<argv, args, calls>>
    /\ UNCHANGED <<argVars, runVars, biasVars>>

\* lines 172-173: the input catalogs
input_dir(a) == NotPassed

\* lines 169-184: one pass of the loop over regions, or its end
InvokeRegion ==
    /\ mpc = "region"
    /\ IF mloc.ri <= Len(args.region)
       THEN LET region == args.region[mloc.ri]
                rec_type == <<args.algorithm, args.convention>>
            IN /\ calls' = Append(calls,
                    [Reconstruction |-> ReconstructionClass(args.algorithm),
                     data_fn |-> catalog_fn(Passed(args.tracer), Passed("cutsky"),
                                    input_dir(args), NotPassed, NotPassed, NotPassed, NotPassed),
                     randoms_fn |-> catalog_fn(Passed(args.tracer), Passed("cutsky"),
                                    input_dir(args), NotPassed, Passed("randoms"), NotPassed,
                                    Passed(args.nran)),
                     data_rec_fn |-> catalog_fn(Passed(args.tracer), NotPassed,
                                    Passed(args.outdir), Passed(rec_type), Passed("data"),
                                    Passed(region), Passed(args.nran)),
                     randoms_rec_fn |-> catalog_fn(Passed(args.tracer), NotPassed,
                                    Passed(args.outdir), Passed(rec_type), Passed("randoms"),
                                    Passed(region), Passed(args.nran)),
                     f |-> mloc.f, bias |-> mloc.bias, convention |-> args.convention,
                     zlim |-> mloc.zlims[mloc.zi], region |-> region])
               /\ mloc' = [mloc EXCEPT !.ri = @ + 1]
               /\ mpc' = "region"
       ELSE /\ mloc' = [mloc EXCEPT !.zi = @ + 1]
            /\ mpc' = "f"
            /\ UNCHANGED calls
    /\ UNCHANGED <<argv, args>>
    /\ UNCHANGED <<argVars, runVars, biasVars>>

\* a call get_bias(tracer)
GetBias ==
    /\ bias_pc = "call"
    /\ bias_out' = get_bias(tracer_in)
    /\ bias_pc' = "returned"
    /\ UNCHANGED tracer_in
    /\ UNCHANGED <<argVars, runVars, mainVars>>

\* ------------------------------------------------------ specifications
SeqsUpTo(S, n) == UNION {[1..m -> S] : m \in 0..n}

NoRecon == [cls |-> "", data |-> None, log |-> <<>>]
NoMainLocals == [bias |-> None, zbox |-> None, zlims |-> <<>>, zi |-> 0, f |-> None, ri |-> 0]
NoArgv == [tracer |-> NotGiven, indir |-> NotGiven, region |-> NotGiven, zlim |-> NotGiven,
           outdir |-> NotGiven, algorithm |-> NotGiven, convention |-> NotGiven,
           f |-> NotGiven, bias |-> NotGiven]

RunIdle ==
    /\ entry = "none" /\ mpicomm = None /\ Reconstruction = "" /\ convention = ""
    /\ data_fn = <<>> /\ randoms_fn = List(<<>>) /\ data_rec_fn = <<>>
    /\ randoms_rec_fn = List(<<>>) /\ zlim = <<0, 0>>
    /\ pc = [r \in AllRanks |-> "none"]
    /\ idx = [r \in AllRanks |-> 0]
    /\ loc = [r \in AllRanks |-> NoLocals]
    /\ recon = [r \in AllRanks |-> NoRecon]
    /\ fs = <<>> /\ reads = <<>> /\ writes = <<>>

MainIdle ==
    /\ argv = NoArgv /\ args = parse_args(NoArgv) /\ mpc = "none"
    /\ mloc = NoMainLocals /\ calls = <<>>

BiasIdle == tracer_in = <<>> /\ bias_out = 0 /\ bias_pc = "none"

\* The arguments of a call of run_reconstruction.
RandomsFnArgs ==
    {Str(RandomsPath(1))} \cup {List([j \in 1..n |-> RandomsPath(j)]) : n \in 0..MaxRandoms}
RandomsRecArgs ==
    {Str(RandomsRecPath(1))} \cup {List([j \in 1..n |-> RandomsRecPath(j)]) : n \in 0..MaxRandoms}
RandomsRecArgsOdd ==
    {List(<<RandomsRecPath(1), RandomsRecPath(1)>>),
     List(<<RandomsPath(MaxRandoms), RandomsRecPath(2)>>)}
ZlimArgs == {<<0, 1000>>, <<1, 1000>>}
InputFilesOf(x) == IF ndim(x) = 0 THEN <<x.v>> ELSE x.v
Conventions(e) == IF e = "cli" THEN ConventionChoices ELSE ConventionChoices \cup {"rsd"}

InitRunState ==
    /\ pc = [r \in AllRanks |-> IF r \in Ranks THEN "load" ELSE "none"]
    /\ idx = [r \in AllRanks |-> 0]
    /\ loc = [r \in AllRanks |-> NoLocals]
    /\ recon = [r \in AllRanks |-> NoRecon]
    /\ fs = [p \in InputPaths |-> InputCatalog(p)]
    /\ reads = <<>> /\ writes = <<>>

\* One process, no communicator; any shape of the path arguments.
InitSerial ==
    /\ mpicomm = None
    /\ entry \in {"cli", "call"}
    /\ convention \in Conventions(entry)
    /\ Reconstruction \in {ReconstructionClass(a) : a \in AlgorithmChoices}
    /\ data_fn = DataPath
    /\ randoms_fn \in RandomsFnArgs
    /\ data_rec_fn \in {DataRecPath, DataPath, RandomsPath(1)}
    /\ randoms_rec_fn \in RandomsRecArgs \cup RandomsRecArgsOdd
    /\ zlim \in ZlimArgs
    /\ InitRunState

\* NRanks processes sharing a communicator.
InitMPI ==
    /\ mpicomm = [k |-> "comm", size |-> NRanks]
    /\ entry \in {"cli", "call"}
    /\ convention \in Conventions(entry)
    /\ Reconstruction \in {ReconstructionClass(a) : a \in AlgorithmChoices}
    /\ data_fn = DataPath
    /\ randoms_fn \in RandomsFnArgs
    /\ data_rec_fn = DataRecPath
    /\ randoms_rec_fn \in {x \in RandomsRecArgs : x.k = "str" \/ x = List([j \in 1..Len(InputFilesOf(randoms_fn)) |-> RandomsRecPath(j)])}
    /\ zlim = <<1, 1000>>
    /\ InitRunState

Init == (InitSerial \/ InitMPI) /\ MainIdle /\ BiasIdle

Next ==
    \/ \E r \in Ranks : LoadData(r)
    \/ \E r \in Ranks : Construct(r)
    \/ \E r \in Ranks : AssignData(r)
    \/ \E r \in Ranks : AssignRandoms(r)
    \/ \E r \in Ranks : SetDensityContrast(r)
    \/ \E r \in Ranks : Run(r)
    \/ \E r \in Ranks : ShiftData(r)
    \/ \E r \in Ranks : WriteData(r)
    \/ \E r \in Ranks : ShiftRandoms(r)

Spec == Init /\ [][Next]_vars

\* The script run from the command line.
Regions == {"NGC", "SGC"}
ZlimWords == {"0.8", "1.1", "highz"}
Option(S) == {NotGiven} \cup {Given(x) : x \in S}

ArgvSet ==
    [tracer : Option({<<"L", "R", "G">>}),
     indir : Option({"/in"}),
     region : Option(SeqsUpTo(Regions, MaxRegions)),
     zlim : Option(SeqsUpTo(ZlimWords, MaxZlim)),
     outdir : Option({"/out"}),
     algorithm : Option({"IFTP"}),
     convention : Option({"recsym"}),
     f : Option({0, 85}),
     bias : Option({0, 200})]

InitMain ==
    /\ argv \in ArgvSet
    /\ args = parse_args(NoArgv)
    /\ mpc = "parse"
    /\ mloc = NoMainLocals
    /\ calls = <<>>
    /\ RunIdle /\ BiasIdle

NextMain == ParseArgs \/ ResolveBias \/ ResolveZlims \/ ResolveF \/ InvokeRegion

SpecMain == InitMain /\ [][NextMain]_vars

\* get_bias called on a tracer name.
TracerAlphabet == {"E", "L", "G", "Q", "S", "O", "R", "B"}

InitBias ==
    /\ tracer_in \in SeqsUpTo(TracerAlphabet, MaxLen)
    /\ bias_out = 0
    /\ bias_pc = "call"
    /\ RunIdle /\ MainIdle

NextBias == GetBias

SpecBias == InitBias /\ [][NextBias]_vars

\* ---------------------------------------------------------- properties
\* What a call of run_reconstruction is given, as its caller means it: a single
\* path stands for a list of one path.
InputFiles == IF randoms_fn.k = "str" THEN <<randoms_fn.v>> ELSE randoms_fn.v
OutputFiles == IF randoms_rec_fn.k = "str" THEN <<randoms_rec_fn.v>> ELSE randoms_rec_fn.v

CallInputs == {data_fn} \cup {InputFiles[j] : j \in 1..Len(InputFiles)}

\* None of the paths the call writes is one of its input paths.
NoOutputIsInput ==
    /\ data_rec_fn \notin CallInputs
    /\ \A j \in 1..Len(iter(randoms_rec_fn)) : iter(randoms_rec_fn)[j] \notin CallInputs

IsPrefix(a, b) == Len(a) <= Len(b) /\ SubSeq(b, 1, Len(a)) = a
Count(L, op) == Cardinality({j \in 1..Len(L) : L[j].op = op})

OpRank(op) ==
    CASE op = "__init__" -> 0
      [] op = "assign_data" -> 1
      [] op = "assign_randoms" -> 2
      [] op = "set_density_contrast" -> 3
      [] op = "run" -> 4
      [] op = "read_shifted_positions" -> 5

IsRandomsAssign(c) == c.op = "assign_randoms"
IsDataShift(c) == c.op = "read_shifted_positions" /\ c.site \in {61, 63}
IsRandomsShift(c) == c.op = "read_shifted_positions" /\ c.site = 83

\* C1: on every rank the reconstruction object is constructed once, then
\* assign_data is called once, then assign_randoms once per randoms input file in
\* the order of randoms_fn, then set_density_contrast once, then run once, and
\* read_shifted_positions only after run: the calls received so far are in that
\* order, none is repeated or skipped, and a finished call has made them all.
C1_CallOrder ==
    \A r \in Ranks :
        LET L == recon[r].log
            assigned == SelectSeq(L, IsRandomsAssign)
        IN /\ \A i, j \in 1..Len(L) : i < j => OpRank(L[i].op) <= OpRank(L[j].op)
           /\ \A op \in {"__init__", "assign_data", "set_density_contrast", "run"} :
                 /\ Count(L, op) <= 1
                 /\ \A j \in 1..Len(L) : OpRank(L[j].op) > OpRank(op) => Count(L, op) = 1
           /\ IsPrefix([j \in 1..Len(assigned) |-> assigned[j].fn], InputFiles)
           /\ \A j \in 1..Len(L) : OpRank(L[j].op) > 2 => Len(assigned) = Len(InputFiles)
           /\ pc[r] = "done" => /\ Count(L, "run") = 1
                                /\ Count(L, "read_shifted_positions") >= 1
                                /\ L[Len(L)].op = "read_shifted_positions"

C1_Witness ==
    \E r \in Ranks :
        /\ pc[r] = "done"
        /\ Len(InputFiles) = 2
        /\ Count(recon[r].log, "assign_randoms") = 2
        /\ Count(recon[r].log, "read_shifted_positions") = 3

\* The randoms inputs and outputs are both single paths or both lists, of one
\* length, and the output paths are distinct.
SameShape ==
    /\ randoms_fn.k = randoms_rec_fn.k
    /\ Len(InputFiles) = Len(OutputFiles)
    /\ \A i, j \in 1..Len(OutputFiles) : i # j => OutputFiles[i] # OutputFiles[j]
    /\ \A j \in 1..Len(OutputFiles) : OutputFiles[j] # data_rec_fn

\* C2: with a convention other than 'rsd' a finished call has written, on the root
\* rank, one shifted data catalog to data_rec_fn and then the i-th randoms input to
\* the i-th randoms output path, whether the randoms paths are single paths or
\* lists (of equal length, with distinct outputs).
C2_OutputsWritten ==
    (pc[0] = "done" /\ convention # "rsd" /\ SameShape /\ NoOutputIsInput) =>
        /\ [j \in 1..Len(writes) |-> writes[j].path] = <<data_rec_fn>> \o OutputFiles
        /\ [j \in 1..Len(writes) |-> writes[j].input] = <<data_fn>> \o InputFiles

\* The calls a reconstruction object received, without their array arguments.
Signature(L) == [j \in 1..Len(L) |-> <<L[j].op, L[j].site, L[j].field, L[j].fn>>]

PairCount == Min(Len(InputFiles), Len(iter(randoms_rec_fn)))

\* C7: with 'reciso' the data are read with field 'disp+rsd' and the randoms with
\* 'disp'; with 'recsym' both with 'disp+rsd'; with 'rsd' the data are read with
\* 'rsd' and no randoms are shifted or written. A command-line run has convention
\* 'reciso' or 'recsym', never uses field 'rsd', and shifts and writes its randoms.
C7_Fields ==
    /\ \A r \in Ranks : \A j \in 1..Len(recon[r].log) :
          LET c == recon[r].log[j]
          IN /\ IsDataShift(c) /\ convention \in {"reciso", "recsym"} => c.field = "disp+rsd"
             /\ IsDataShift(c) /\ convention = "rsd" => c.field = "rsd"
             /\ IsRandomsShift(c) /\ convention = "reciso" => c.field = "disp"
             /\ IsRandomsShift(c) /\ convention = "recsym" => c.field = "disp+rsd"
             /\ convention = "rsd" => ~IsRandomsShift(c)
             /\ entry = "cli" => c.field # "rsd"
    /\ convention = "rsd" => \A j \in 1..Len(writes) : j = 1 /\ writes[j].input = data_fn
    /\ entry = "cli" => convention \in {"reciso", "recsym"}
    /\ entry = "cli" /\ pc[0] = "done" =>
          /\ Len(SelectSeq(recon[0].log, IsRandomsShift)) = PairCount
          /\ Len(writes) = 1 + PairCount

C7_Witness ==
    /\ entry = "cli"
    /\ convention = "reciso"
    /\ pc[0] = "done"
    /\ Len(writes) = 3
    /\ \E j \in 1..Len(recon[0].log) :
          IsRandomsShift(recon[0].log[j]) /\ recon[0].log[j].field = "disp"

\* The rows of an input catalog, as it is before the call, that the mask selects.
Selected(p) == SelectSeq(InputCatalog(p), LAMBDA row : InMask(row, zlim))
RowsKept ==
    \A j \in 1..Len(writes) :
        LET w == writes[j]
            sel == Selected(w.input)
        IN /\ Len(w.catalog) = Len(sel)
           /\ w.given = Len(sel)
           /\ \A n \in 1..Len(sel) :
                 /\ [w.catalog[n] EXCEPT !.RA = sel[n].RA, !.DEC = sel[n].DEC, !.Z = sel[n].Z]
                       = sel[n]

InputsUntouched == \A p \in CallInputs : fs[p] = InputCatalog(p)

\* C9: every catalog written holds the rows of its input catalog that the mask
\* selects, in order, as many as the positions given to read_shifted_positions, and
\* differs from them in the columns RA, DEC and Z only; the input catalog files are
\* never written.
C9_FrameAnyPaths == RowsKept /\ InputsUntouched

\* C9 as amended: the same for every call none of whose written paths (data_rec_fn
\* and the paths that iterating randoms_rec_fn yields) is one of its input paths.
C9_FrameDisjointPaths == NoOutputIsInput => (RowsKept /\ InputsUntouched)

C9_Witness ==
    /\ NoOutputIsInput
    /\ pc[0] = "done"
    /\ zlim = <<1, 1000>>
    /\ Len(writes) = 3
    /\ Len(writes[3].catalog) = NRows - 1

\* The first three characters of a name, or all of a shorter one.
Head3(s) == SubSeq(s, 1, Min(3, Len(s)))

\* C4: get_bias returns 1.2 for a name starting with 'ELG', 2.07 for 'QSO', 1.99 for
\* 'LRG', 1.5 for 'BGS' and 1.2 for any other string, the empty one included; the
\* result is decided by the first three characters of the name.
C4_BiasTable ==
    bias_pc = "returned" =>
        LET h == Head3(tracer_in)
        IN /\ h = <<"E", "L", "G">> => bias_out = 120
           /\ h = <<"Q", "S", "O">> => bias_out = 207
           /\ h = <<"L", "R", "G">> => bias_out = 199
           /\ h = <<"B", "G", "S">> => bias_out = 150
           /\ h \notin {<<"E", "L", "G">>, <<"Q", "S", "O">>, <<"L", "R", "G">>, <<"B", "G", "S">>}
                 => bias_out = 120

C4_Witness ==
    /\ bias_pc = "returned"
    /\ tracer_in = <<"Q", "S", "O", "B">>
    /\ bias_out = 207

\* The script has ended: it ran to its last line or an exception ended it.
Ended == mpc \in {"done", "raised"}
RegionsRun == [j \in 1..Len(calls) |-> calls[j].region]

\* C5: without --region the reconstruction is run on all regions, once for 'NGC'
\* and once for 'SGC'.
C5_AllRegionsByDefault ==
    (mpc = "done" /\ ~argv.region.given) => RegionsRun = <<"NGC", "SGC">>

\* C6: the input catalog paths passed to run_reconstruction are resolved under the
\* directory given by --indir, and the output catalog paths under --outdir.
C6_Directories ==
    \A j \in 1..Len(calls) :
        /\ argv.indir.given =>
              /\ calls[j].data_fn.cat_dir = Passed(argv.indir.v[1])
              /\ calls[j].randoms_fn.cat_dir = Passed(argv.indir.v[1])
        /\ calls[j].data_rec_fn.cat_dir = Passed(args.outdir)
        /\ calls[j].randoms_rec_fn.cat_dir = Passed(args.outdir)

\* The tracer of a command line: --tracer, or its default.
TracerOf(a) == IF a.tracer.given THEN a.tracer.v[1] ELSE <<"E", "L", "G">>

\* C8: the bias passed is the --bias value whenever --bias is given, 0 included, and
\* get_bias(tracer) otherwise; the growth rate passed is the --f value whenever --f
\* is given, 0 included, and comes from get_f_reconstruction otherwise; every region
\* of the run gets the same f and bias.
C8_BiasAndF ==
    \A j \in 1..Len(calls) :
        /\ argv.bias.given => calls[j].bias = Float(argv.bias.v[1])
        /\ ~argv.bias.given => calls[j].bias = Float(get_bias(TracerOf(argv)))
        /\ argv.f.given => calls[j].f = Float(argv.f.v[1])
        /\ ~argv.f.given => calls[j].f.k = "get_f_reconstruction"
        /\ calls[j].f = calls[1].f
        /\ calls[j].bias = calls[1].bias

C8_Witness ==
    /\ mpc = "done"
    /\ Len(calls) = 2
    /\ argv.bias.given /\ argv.bias.v[1] = 0 /\ calls[2].bias = Float(0)
    /\ argv.f.given /\ argv.f.v[1] = 0 /\ calls[2].f = Float(0)

\* C10: whatever values --zlim is given (one or more), the script runs
\* run_reconstruction once per entry of --region, in order, each with the range
\* (first --zlim value, last --zlim value); with --zlim absent the range is the
\* first and last value of get_z_cutsky(tracer); with --zlim given no values the
\* script fails before any reconstruction is run.
C10_SinglePass ==
    Ended =>
        /\ (argv.zlim.given /\ Len(argv.zlim.v[1]) = 0) => (mpc = "raised" /\ calls = <<>>)
        /\ (argv.zlim.given /\ Len(argv.zlim.v[1]) >= 1) =>
              /\ mpc = "done"
              /\ RegionsRun = args.region
              /\ \A j \in 1..Len(calls) :
                    calls[j].zlim = <<float(argv.zlim.v[1][1]),
                                      float(argv.zlim.v[1][Len(argv.zlim.v[1])])>>
        /\ ~argv.zlim.given =>
              /\ mpc = "done"
              /\ RegionsRun = args.region
              /\ \A j \in 1..Len(calls) :
                    calls[j].zlim = <<get_z_cutsky(args.tracer)[1],
                                      get_z_cutsky(args.tracer)[Len(get_z_cutsky(args.tracer))]>>

AllNumeric == \A j \in 1..Len(argv.zlim.v[1]) : IsNumeric(argv.zlim.v[1][j])

\* C10 for --zlim values that are all decimal numbers.
C10_SinglePassNumeric == (argv.zlim.given => AllNumeric) => C10_SinglePass

====
